---- MODULE Spec2Model ----
\* podcast-reader: the transcript segmenter (_dividir_en_bloques), the labeling
\* orchestrator (diarizar_transcripcion) and the pipeline controller (main).
EXTENDS Integers, Sequences, FiniteSets, TLC

\* ---------------------------------------------------------------- strings
\* A Python str is a sequence of pieces [s, k]: the unit string s repeated k
\* times (k >= 1).  A unit is either whitespace or free of whitespace, so a
\* text of thousands of characters is a short sequence of pieces.

Whitespace == {" ", "\n"}

Rep(s, k) == [s |-> s, k |-> k]

IsSpace(p) == p.s \in Whitespace

\* len(piece)
LenPiece(p) == Len(p.s) * p.k

\* len(str)
RECURSIVE LenStr(_)
LenStr(t) == IF t = <<>> THEN 0 ELSE LenPiece(Head(t)) + LenStr(Tail(t))

\* str.lstrip()
RECURSIVE LStrip(_)
LStrip(t) == IF t # <<>> /\ IsSpace(Head(t)) THEN LStrip(Tail(t)) ELSE t

\* str.rstrip()
RECURSIVE RStrip(_)
RStrip(t) ==
    IF t # <<>> /\ IsSpace(t[Len(t)]) THEN RStrip(SubSeq(t, 1, Len(t) - 1)) ELSE t

\* str.strip()
Strip(t) == RStrip(LStrip(t))

\* str.split(): the maximal runs of non-whitespace, in order.  cur is the word
\* being read (<<>> when between words).
RECURSIVE SplitFrom(_, _, _)
SplitFrom(t, cur, acc) ==
    IF t = <<>>
    THEN IF cur # <<>> THEN Append(acc, cur) ELSE acc
    ELSE IF IsSpace(Head(t))
         THEN SplitFrom(Tail(t), <<>>, IF cur # <<>> THEN Append(acc, cur) ELSE acc)
         ELSE SplitFrom(Tail(t), Append(cur, Head(t)), acc)

Split(t) == SplitFrom(t, <<>>, <<>>)

\* sep.join(items)
RECURSIVE Join(_, _)
Join(sep, items) ==
    IF items = <<>> THEN <<>>
    ELSE IF Len(items) = 1 THEN items[1]
    ELSE items[1] \o sep \o Join(sep, Tail(items))

\* token in str, for a token that is one of the units of the alphabet
Contains(tok, t) == \E i \in 1..Len(t) : t[i].s = tok

\* ---------------------------------------------------------------- segmenter

MAX_CHARS == 14000

\* PasoBloque with a slip: the word that closes a bloque is not carried into
\* the next one
PasoBloquePierde(st, palabra, max_chars) ==
    LET largo_palabra == LenStr(palabra) + (IF st.bloque_actual # <<>> THEN 1 ELSE 0)
    IN  IF st.largo_actual + largo_palabra > max_chars /\ st.bloque_actual # <<>>
        THEN [bloques       |-> Append(st.bloques, Join(<<Rep(" ", 1)>>, st.bloque_actual)),
              bloque_actual |-> <<>>,
              largo_actual  |-> 0]
        ELSE [bloques       |-> st.bloques,
              bloque_actual |-> Append(st.bloque_actual, palabra),
              largo_actual  |-> st.largo_actual + largo_palabra]

\* PasoBloque with a slip: the separating space is not counted
PasoBloqueSinEspacio(st, palabra, max_chars) ==
    LET largo_palabra == LenStr(palabra)
    IN  IF st.largo_actual + largo_palabra > max_chars /\ st.bloque_actual # <<>>
        THEN [bloques       |-> Append(st.bloques, Join(<<Rep(" ", 1)>>, st.bloque_actual)),
              bloque_actual |-> <<palabra>>,
              largo_actual  |-> LenStr(palabra)]
        ELSE [bloques       |-> st.bloques,
              bloque_actual |-> Append(st.bloque_actual, palabra),
              largo_actual  |-> st.largo_actual + largo_palabra]

\* PasoBloque with a slip: a bloque is closed when the word would fill it exactly
PasoBloqueEstricto(st, palabra, max_chars) ==
    LET largo_palabra == LenStr(palabra) + (IF st.bloque_actual # <<>> THEN 1 ELSE 0)
    IN  IF st.largo_actual + largo_palabra >= max_chars /\ st.bloque_actual # <<>>
        THEN [bloques       |-> Append(st.bloques, Join(<<Rep(" ", 1)>>, st.bloque_actual)),
              bloque_actual |-> <<palabra>>,
              largo_actual  |-> LenStr(palabra)]
        ELSE [bloques       |-> st.bloques,
              bloque_actual |-> Append(st.bloque_actual, palabra),
              largo_actual  |-> st.largo_actual + largo_palabra]

\* the loop body of _dividir_en_bloques for one palabra; st holds bloques,
\* bloque_actual and largo_actual
PasoBloque(st, palabra, max_chars) ==
    LET largo_palabra == LenStr(palabra) + (IF st.bloque_actual # <<>> THEN 1 ELSE 0)
    IN  IF st.largo_actual + largo_palabra > max_chars /\ st.bloque_actual # <<>>
        THEN [bloques       |-> Append(st.bloques, Join(<<Rep(" ", 1)>>, st.bloque_actual)),
              bloque_actual |-> <<palabra>>,
              largo_actual  |-> LenStr(palabra)]
        ELSE [bloques       |-> st.bloques,
              bloque_actual |-> Append(st.bloque_actual, palabra),
              largo_actual  |-> st.largo_actual + largo_palabra]

RECURSIVE BucleBloques(_, _, _)
BucleBloques(palabras, st, max_chars) ==
    IF palabras = <<>> THEN st
    ELSE BucleBloques(Tail(palabras), PasoBloque(st, Head(palabras), max_chars), max_chars)

\* DividirEnBloques with a slip: the bloque still open after the loop is not
\* appended
DividirSinUltimo(texto, max_chars) ==
    LET palabras == Split(texto)
    IN  IF palabras = <<>> THEN <<>>
        ELSE BucleBloques(palabras,
                          [bloques |-> <<>>, bloque_actual |-> <<>>, largo_actual |-> 0],
                          max_chars).bloques

\* _dividir_en_bloques(texto, max_chars)
DividirEnBloques(texto, max_chars) ==
    LET palabras == Split(texto)
    IN  IF palabras = <<>> THEN <<>>
        ELSE LET fin == BucleBloques(palabras,
                            [bloques |-> <<>>, bloque_actual |-> <<>>, largo_actual |-> 0],
                            max_chars)
             IN  IF fin.bloque_actual # <<>>
                 THEN Append(fin.bloques, Join(<<Rep(" ", 1)>>, fin.bloque_actual))
                 ELSE fin.bloques

\* ------------------------------------------------- segmenter, called alone

MaxTextLen == 6
MaxBudget == 4

SegAlphabet == {Rep("a", 1), Rep("b", 1), Rep(" ", 1)}

SegTexts == UNION {[1..n -> SegAlphabet] : n \in 0..MaxTextLen}


\* ---------------------------------------------------------------- files

\* a file of outputs/: absent, or present with its text
SinArchivo == [exists |-> FALSE, text |-> <<>>]

Archivo(t) == [exists |-> TRUE, text |-> t]

\* ---------------------------------------------------------------- checks

MIN_LARGO_SALIDA == 200
RATIO_SALIDA == 55
RATIO_POR_DEFECTO == 85

Max(a, b) == IF a >= b THEN a ELSE b

\* int(n * pct / 100) of Python: truncation toward zero
IntPct(n, pct) == IF n * pct >= 0 THEN (n * pct) \div 100 ELSE -((-(n * pct)) \div 100)

\* not texto.strip()
EsVacia(t) == Strip(t) = <<>>

\* PareceIncompleta with a slip: the ratio is left out of the comparison
PareceIncompletaSinRatio(diarizada, cruda, ratio) ==
    LenStr(Strip(diarizada)) < LenStr(Strip(cruda))

\* main: the cached labeled text is shorter than int(len(raw) * ratio)
PareceIncompleta(diarizada, cruda, ratio) ==
    LenStr(Strip(diarizada)) < IntPct(LenStr(Strip(cruda)), ratio)

\* main: "ENTREVISTADOR" in t or "INVITADO" in t
ContieneEtiquetas(t) == Contains("ENTREVISTADOR", t) \/ Contains("INVITADO", t)

\* main: not (ratio_actual < ratio_minimo_diarizacion), ratio in percent
RatioSuficiente(diarizada, cruda, ratio) ==
    100 * LenStr(Strip(diarizada)) >= ratio * Max(1, LenStr(Strip(cruda)))

\* diarizar_transcripcion: the size check on the joined output
SalidaIncompleta(texto_diarizado, transcripcion) ==
    LenStr(texto_diarizado) < Max(MIN_LARGO_SALIDA, IntPct(LenStr(transcripcion), RATIO_SALIDA))

\* ---------------------------------------------------------------- inputs

MaxRuns == 2

ENT == Rep("ENTREVISTADOR", 1)
INV == Rep("INVITADO", 1)
NL == Rep("\n", 1)

\* raw transcripts the extractor may return, or a raw file may hold
CrudaCorta == <<Rep("x", 310)>>
CrudaConMargen == <<Rep(" ", 2), Rep("x", 310), NL>>
CrudaLarga == <<Rep("x", 9000), Rep(" ", 1), Rep("y", 9000)>>

RawTexts == {<<>>, <<Rep(" ", 3)>>, CrudaCorta, CrudaConMargen, CrudaLarga}

\* what extraer_transcripcion does: returns a text, or raises
Extracciones == [ok : {TRUE}, text : RawTexts] \cup {[ok |-> FALSE, text |-> <<>>]}

\* what a call of generate_content does: returns a text, or raises
RespuestaTextos ==
    { <<>>,
      <<NL>>,
      <<ENT>>,
      <<ENT, NL, Rep("x", 206)>>,
      <<Rep(" ", 1), INV, NL, Rep("x", 8000), NL>>,
      <<Rep("x", 310)>>,
      <<ENT, NL, Rep("y", 8000)>> }

Respuestas == [raise : {FALSE}, text : RespuestaTextos] \cup {[raise |-> TRUE, text |-> <<>>]}

\* labeled files found on disk at program start
LabTextsIniciales ==
    { <<>>,
      <<NL, NL>>,
      <<ENT, NL, Rep("x", 310), NL>>,
      <<ENT, NL, Rep("x", 280)>>,
      <<ENT, NL, Rep("x", 249)>>,
      <<ENT, NL, Rep("x", 100)>>,
      <<Rep("x", 310)>> }

\* the values DIARIZATION_MIN_RATIO takes, in percent; 0 and 150 lie outside
\* (0, 1]
Ratios == {RATIO_POR_DEFECTO, 50, 0, 150}

\* ---------------------------------------------------------------- state

VARIABLES
    rawFile,                    \* outputs/{id}_transcripcion_cruda.txt
    labFile,                    \* outputs/{id}_transcripcion_diarizada.txt
    permitir_fallback_crudo,    \* main: ALLOW_RAW_FALLBACK == "1"
    ratio_minimo_diarizacion,   \* main: DIARIZATION_MIN_RATIO, in percent
    paso,                       \* where main is: inicio, paso2, bucle, fin
    transcripcion_cruda,        \* main
    transcripcion_diarizada,    \* main
    bloques,                    \* diarizar_transcripcion
    partes_diarizadas,          \* diarizar_transcripcion
    llamadas,                   \* the generate_content calls of this run, in order
    pdf,                        \* the text generar_pdf was called with in this run
    resultado,                  \* how this run of main ended
    error,                      \* which raise of diarizar_transcripcion was taken
    intentos,                   \* calls of diarizar_transcripcion in this run
    escritura,                  \* what this run wrote to labFile
    labInicio,                  \* labFile as it was when this run started
    usoFallback,                \* this run took transcripcion_diarizada = transcripcion_cruda
    corridas,                   \* runs of main started so far
    extrajo,                    \* this run called extraer_transcripcion
    previa                      \* the run before this one: its inputs and its output

VARIABLES segTexto, segMax, segBloques, segPc

ctlVars == <<rawFile, labFile, permitir_fallback_crudo, ratio_minimo_diarizacion, paso,
             transcripcion_cruda, transcripcion_diarizada, bloques, partes_diarizadas,
             llamadas, pdf, resultado, error, intentos, escritura, labInicio,
             usoFallback, corridas, extrajo, previa>>

segVars == <<segTexto, segMax, segBloques, segPc>>

vars == <<ctlVars, segVars>>

\* state of a run that has not started
RunReset ==
    /\ permitir_fallback_crudo' = FALSE
    /\ ratio_minimo_diarizacion' = RATIO_POR_DEFECTO
    /\ paso' = "inicio"
    /\ transcripcion_cruda' = <<>>
    /\ transcripcion_diarizada' = <<>>
    /\ bloques' = <<>>
    /\ partes_diarizadas' = <<>>
    /\ llamadas' = <<>>
    /\ pdf' = SinArchivo
    /\ resultado' = "ninguno"
    /\ error' = "ninguno"
    /\ intentos' = 0
    /\ escritura' = SinArchivo
    /\ usoFallback' = FALSE
    /\ extrajo' = FALSE

CtlIdle ==
    /\ permitir_fallback_crudo = FALSE
    /\ ratio_minimo_diarizacion = RATIO_POR_DEFECTO
    /\ paso = "inicio"
    /\ transcripcion_cruda = <<>>
    /\ transcripcion_diarizada = <<>>
    /\ bloques = <<>>
    /\ partes_diarizadas = <<>>
    /\ llamadas = <<>>
    /\ pdf = SinArchivo
    /\ resultado = "ninguno"
    /\ error = "ninguno"
    /\ intentos = 0
    /\ escritura = SinArchivo
    /\ usoFallback = FALSE
    /\ extrajo = FALSE

\* no run came before
SinPrevia ==
    [corrio |-> FALSE, fallback |-> FALSE, ratio |-> RATIO_POR_DEFECTO, cruda |-> <<>>,
     labInicio |-> SinArchivo, pdf |-> SinArchivo, resultado |-> "ninguno",
     extrajo |-> FALSE]

SegIdle ==
    /\ segTexto = <<>>
    /\ segMax = 1
    /\ segBloques = <<>>
    /\ segPc = "idle"

Init ==
    /\ rawFile \in {SinArchivo} \cup {Archivo(t) : t \in RawTexts}
    /\ labFile \in {SinArchivo} \cup {Archivo(t) : t \in LabTextsIniciales}
    /\ labInicio = labFile
    /\ corridas = 1
    /\ previa = SinPrevia
    /\ CtlIdle
    /\ SegIdle

\* ---------------------------------------------------------------- main

\* main, PASO 3 and the end of main: generar_pdf(transcripcion_diarizada, ...)
Generar(diarizada) ==
    /\ pdf' = Archivo(diarizada)
    /\ resultado' = "ok"

\* VerificarYGenerar with a slip: the check is made whatever the fallback flag
VerificarSiempre(diarizada) ==
    /\ transcripcion_diarizada' = diarizada
    /\ paso' = "fin"
    /\ IF ~ContieneEtiquetas(diarizada)
       THEN resultado' = "fatal_etiquetas" /\ pdf' = pdf
       ELSE IF ~RatioSuficiente(diarizada, transcripcion_cruda, ratio_minimo_diarizacion)
            THEN resultado' = "fatal_ratio" /\ pdf' = pdf
            ELSE Generar(diarizada)

\* VerificarYGenerar with a slip: the ratio is not checked
VerificarSinRatio(diarizada) ==
    /\ transcripcion_diarizada' = diarizada
    /\ paso' = "fin"
    /\ IF ~permitir_fallback_crudo /\ ~ContieneEtiquetas(diarizada)
       THEN resultado' = "fatal_etiquetas" /\ pdf' = pdf
       ELSE Generar(diarizada)

\* main, from the check after PASO 2 to the end, with transcripcion_diarizada
\* holding diarizada
VerificarYGenerar(diarizada) ==
    /\ transcripcion_diarizada' = diarizada
    /\ paso' = "fin"
    /\ IF ~permitir_fallback_crudo /\ ~ContieneEtiquetas(diarizada)
       THEN resultado' = "fatal_etiquetas" /\ pdf' = pdf
       ELSE IF /\ ~permitir_fallback_crudo
               /\ ~RatioSuficiente(diarizada, transcripcion_cruda, ratio_minimo_diarizacion)
            THEN resultado' = "fatal_ratio" /\ pdf' = pdf
            ELSE Generar(diarizada)

\* Fallo with a slip: the raw text is used whatever the fallback flag
FalloSiempreFallback(err, leida) ==
    /\ error' = err
    /\ usoFallback' = TRUE
    /\ transcripcion_diarizada' = transcripcion_cruda
    /\ paso' = "fin"
    /\ Generar(transcripcion_cruda)

\* Fallo with a slip: the failed diarization is tried again
FalloReintenta(err, leida) ==
    /\ error' = err
    /\ usoFallback' = usoFallback
    /\ paso' = "paso2"
    /\ resultado' = resultado
    /\ transcripcion_diarizada' = leida
    /\ pdf' = pdf

\* Fallo with a slip: the run ends with the fatal error whatever the fallback flag
FalloSiempreFatal(err, leida) ==
    /\ error' = err
    /\ usoFallback' = usoFallback
    /\ paso' = "fin"
    /\ resultado' = "fatal_diarizacion"
    /\ transcripcion_diarizada' = leida
    /\ pdf' = pdf

\* main, except RuntimeError around diarizar_transcripcion; err names the raise,
\* leida is what transcripcion_diarizada holds at the call
Fallo(err, leida) ==
    /\ error' = err
    /\ IF permitir_fallback_crudo
       THEN /\ usoFallback' = TRUE
            /\ VerificarYGenerar(transcripcion_cruda)
       ELSE /\ usoFallback' = usoFallback
            /\ paso' = "fin"
            /\ resultado' = "fatal_diarizacion"
            /\ transcripcion_diarizada' = leida
            /\ pdf' = pdf

\* CrudaReutilizable with a slip: the raw file is never found
CrudaNuncaReutilizable(f) == FALSE

\* main, PASO 1: the raw file exists and is not blank, so it is read and
\* extraer_transcripcion is not called
CrudaReutilizable(f) == f.exists /\ ~EsVacia(f.text)

\* main, PASO 1: the environment is read and the raw transcript is read from
\* its file or extracted
Paso1 ==
    /\ paso = "inicio"
    /\ \E fb \in BOOLEAN, r \in Ratios, ext \in Extracciones :
         /\ permitir_fallback_crudo' = fb
         /\ ratio_minimo_diarizacion' = r
         /\ IF CrudaReutilizable(rawFile)
            THEN /\ transcripcion_cruda' = rawFile.text
                 /\ paso' = "paso2"
                 /\ UNCHANGED <<rawFile, resultado, extrajo>>
            ELSE IF ext.ok
                 THEN /\ rawFile' = Archivo(ext.text)
                      /\ transcripcion_cruda' = ext.text
                      /\ paso' = "paso2"
                      /\ extrajo' = TRUE
                      /\ UNCHANGED resultado
                 ELSE /\ paso' = "fin"
                      /\ resultado' = "fatal_extraccion"
                      /\ extrajo' = TRUE
                      /\ UNCHANGED <<rawFile, transcripcion_cruda>>
    /\ UNCHANGED <<labFile, transcripcion_diarizada, bloques, partes_diarizadas, llamadas,
                   pdf, error, intentos, escritura, labInicio, usoFallback, corridas,
                   previa>>
    /\ UNCHANGED segVars

\* diarizar_transcripcion up to its loop, called from main with
\* transcripcion_diarizada holding leida
DiarizarEntrada(leida) ==
    /\ intentos' = intentos + 1
    /\ partes_diarizadas' = <<>>
    /\ IF transcripcion_cruda = <<>> \/ EsVacia(transcripcion_cruda)
       THEN Fallo("vacia", leida) /\ bloques' = bloques
       ELSE \E api_key \in BOOLEAN :
              IF ~api_key
              THEN Fallo("config", leida) /\ bloques' = bloques
              ELSE LET bs == DividirEnBloques(transcripcion_cruda, MAX_CHARS)
                   IN  IF bs = <<>>
                       THEN Fallo("bloques", leida) /\ bloques' = bloques
                       ELSE /\ bloques' = bs
                            /\ paso' = "bucle"
                            /\ transcripcion_diarizada' = leida
                            /\ UNCHANGED <<error, usoFallback, resultado, pdf>>

\* main, PASO 2 up to the first generate_content call (or to the end of main):
\* the labeled file is reused or diarizar_transcripcion is called
Paso2 ==
    /\ paso = "paso2"
    /\ IF /\ labFile.exists
          /\ ~EsVacia(labFile.text)
          /\ ~PareceIncompleta(labFile.text, transcripcion_cruda, ratio_minimo_diarizacion)
       THEN /\ VerificarYGenerar(labFile.text)
            /\ UNCHANGED <<bloques, partes_diarizadas, error, intentos, usoFallback>>
       ELSE DiarizarEntrada(IF labFile.exists THEN labFile.text ELSE <<>>)
    /\ UNCHANGED <<rawFile, labFile, permitir_fallback_crudo, ratio_minimo_diarizacion,
                   transcripcion_cruda, llamadas, escritura, labInicio, corridas, extrajo,
                   previa>>
    /\ UNCHANGED segVars

\* Llamada with a slip: indice and total are passed in each other's place
LlamadaInvertida(indice, resp) ==
    [indice |-> Len(bloques), total |-> indice, bloque |-> bloques[indice], resp |-> resp]

\* diarizar_transcripcion: the call of generate_content for bloque indice, with
\* the prompt of construir_prompt_bloque(bloque, indice, len(bloques)), and
\* what came back
Llamada(indice, resp) ==
    [indice |-> indice, total |-> Len(bloques), bloque |-> bloques[indice], resp |-> resp]

\* TextoBloque with a slip: the answer is not stripped
TextoBloqueSinStrip(resp) == resp.text

\* diarizar_transcripcion: texto_bloque = (respuesta.text or "").strip()
TextoBloque(resp) == Strip(resp.text)

\* Reensamblar with a slip: the parts are joined by a single newline
ReensamblarUnSalto(partes) == Join(<<Rep("\n", 1)>>, partes)

\* diarizar_transcripcion: texto_diarizado = "\n\n".join(partes_diarizadas)
Reensamblar(partes) == Join(<<Rep("\n", 2)>>, partes)

\* SalidaSinEscribir with a slip: the text main falls back to is saved as the
\* labeled file
SalidaEscribeCruda ==
    /\ labFile' = Archivo(transcripcion_cruda)
    /\ escritura' = Archivo(transcripcion_cruda)

\* diarizar_transcripcion: a raise inside the try leaves through the except,
\* before the labeled file is opened for writing
SalidaSinEscribir == UNCHANGED <<labFile, escritura>>

\* diarizar_transcripcion: one turn of the loop, the call of generate_content
\* with its answer; after the last bloque, the rest of diarizar_transcripcion
\* and of main
LlamarBackend ==
    /\ paso = "bucle"
    /\ LET indice == Len(partes_diarizadas) + 1
       IN  \E resp \in Respuestas :
             /\ llamadas' = Append(llamadas, Llamada(indice, resp))
             /\ LET texto_bloque == TextoBloque(resp)
                    partes == Append(partes_diarizadas, texto_bloque)
                    texto_diarizado == Reensamblar(partes)
                IN  IF resp.raise \/ texto_bloque = <<>>
                    THEN /\ Fallo("backend", transcripcion_diarizada)
                         /\ SalidaSinEscribir
                         /\ UNCHANGED partes_diarizadas
                    ELSE IF indice < Len(bloques)
                    THEN /\ partes_diarizadas' = partes
                         /\ UNCHANGED <<labFile, escritura, error, usoFallback, paso,
                                        resultado, pdf, transcripcion_diarizada>>
                    ELSE IF SalidaIncompleta(texto_diarizado, transcripcion_cruda)
                    THEN /\ Fallo("incompleta", transcripcion_diarizada)
                         /\ partes_diarizadas' = partes
                         /\ SalidaSinEscribir
                    ELSE /\ partes_diarizadas' = partes
                         /\ labFile' = Archivo(texto_diarizado)
                         /\ escritura' = Archivo(texto_diarizado)
                         /\ UNCHANGED <<error, usoFallback>>
                         /\ VerificarYGenerar(texto_diarizado)
    /\ UNCHANGED <<rawFile, permitir_fallback_crudo, ratio_minimo_diarizacion,
                   transcripcion_cruda, bloques, intentos, labInicio, corridas, extrajo,
                   previa>>
    /\ UNCHANGED segVars

\* the program is run again, on the files the earlier runs left
NuevaEjecucion ==
    /\ paso = "fin"
    /\ corridas < MaxRuns
    /\ corridas' = corridas + 1
    /\ labInicio' = labFile
    /\ previa' = [corrio |-> TRUE, fallback |-> permitir_fallback_crudo,
                  ratio |-> ratio_minimo_diarizacion, cruda |-> transcripcion_cruda,
                  labInicio |-> labInicio, pdf |-> pdf, resultado |-> resultado,
                  extrajo |-> extrajo]
    /\ RunReset
    /\ UNCHANGED <<rawFile, labFile>>
    /\ UNCHANGED segVars

Next == Paso1 \/ Paso2 \/ LlamarBackend \/ NuevaEjecucion

Spec == Init /\ [][Next]_vars

\* main is sequential code: once the raw transcript is there PASO 2 is run, and
\* each generate_content call returns or raises, so the loop goes on
LiveSpec == Spec /\ WF_vars(Paso2) /\ WF_vars(LlamarBackend)

\* ------------------------------------------------- segmenter, called alone

SegInit ==
    /\ segTexto \in SegTexts
    /\ segMax \in 1..MaxBudget
    /\ segBloques = <<>>
    /\ segPc = "call"
    /\ rawFile = SinArchivo
    /\ labFile = SinArchivo
    /\ labInicio = SinArchivo
    /\ corridas = 1
    /\ previa = SinPrevia
    /\ CtlIdle

\* _dividir_en_bloques(segTexto, segMax) is called and returns
SegCall ==
    /\ segPc = "call"
    /\ segBloques' = DividirEnBloques(segTexto, segMax)
    /\ segPc' = "returned"
    /\ UNCHANGED <<segTexto, segMax>>
    /\ UNCHANGED ctlVars

SegNext == SegCall

SegSpec == SegInit /\ [][SegNext]_vars

\* ================================================================ properties

\* the run of main has ended and had a raw transcript to work on
FinConCruda == paso = "fin" /\ resultado # "fatal_extraccion"

Fatales == {"fatal_diarizacion", "fatal_etiquetas", "fatal_ratio"}

\* the acceptance check of main on a labeled text: speaker label and ratio
Aceptable(t) ==
    /\ ContieneEtiquetas(t)
    /\ RatioSuficiente(t, transcripcion_cruda, ratio_minimo_diarizacion)

\* the words of the bloques, in bloque order
RECURSIVE PalabrasDeBloques(_)
PalabrasDeBloques(bs) ==
    IF bs = <<>> THEN <<>> ELSE Split(Head(bs)) \o PalabrasDeBloques(Tail(bs))

\* C1: for a non-blank text and max_chars >= 1, the words of the bloques
\* returned by _dividir_en_bloques, taken in bloque order, are exactly the
\* words of texto.split(): none lost, duplicated, reordered or cut.
C1_RoundTrip ==
    (segPc = "returned" /\ ~EsVacia(segTexto))
        => PalabrasDeBloques(segBloques) = Split(segTexto)

C1_Witness ==
    /\ segPc = "returned"
    /\ Len(segBloques) >= 2
    /\ \E i \in 1..Len(segBloques) : Len(Split(segBloques[i])) >= 2
    /\ Len(segTexto) > 2 * Len(Split(segTexto)) - 1

\* C2: every bloque is at most max_chars long, unless it is one single word
\* longer than max_chars; a word longer than max_chars is a bloque of its own,
\* whole.
C2_Budget ==
    segPc = "returned" =>
        /\ \A i \in 1..Len(segBloques) :
             LET ws == Split(segBloques[i])
             IN  /\ LenStr(segBloques[i]) <= segMax \/ Len(ws) = 1
                 /\ \A j \in 1..Len(ws) :
                      LenStr(ws[j]) > segMax => (Len(ws) = 1 /\ segBloques[i] = ws[j])
        /\ \A k \in 1..Len(Split(segTexto)) :
             LenStr(Split(segTexto)[k]) > segMax
                => \E i \in 1..Len(segBloques) : segBloques[i] = Split(segTexto)[k]

C2_Witness ==
    /\ segPc = "returned"
    /\ Len(segBloques) >= 3
    /\ \E i \in 1..Len(segBloques) : LenStr(segBloques[i]) > segMax
    /\ \E i \in 1..Len(segBloques) : LenStr(segBloques[i]) = segMax

\* the labeled file this run found is non-blank and passes the acceptance check
CacheAceptable ==
    /\ labInicio.exists
    /\ ~EsVacia(labInicio.text)
    /\ Aceptable(labInicio.text)

\* the run before this one found an acceptable labeled file, and this run has
\* the same inputs
MismaEntradaAceptable ==
    /\ previa.corrio
    /\ previa.resultado # "fatal_extraccion"
    /\ previa.fallback = permitir_fallback_crudo
    /\ previa.ratio = ratio_minimo_diarizacion
    /\ previa.cruda = transcripcion_cruda
    /\ previa.labInicio.exists
    /\ ~EsVacia(previa.labInicio.text)
    /\ Aceptable(previa.labInicio.text)

\* C3: a run that finds a non-blank labeled file passing the acceptance check
\* calls neither diarizar_transcripcion nor the backend, leaves the labeled
\* file as it was and hands its text to generar_pdf; a second run on the same
\* inputs hands over the same text and calls the backend zero times.
C3_ReuseIdempotent ==
    FinConCruda =>
        /\ CacheAceptable =>
             /\ llamadas = <<>>
             /\ intentos = 0
             /\ labFile = labInicio
             /\ resultado = "ok"
             /\ pdf = Archivo(labInicio.text)
        /\ MismaEntradaAceptable =>
             /\ llamadas = <<>>
             /\ resultado = "ok"
             /\ previa.resultado = "ok"
             /\ pdf = previa.pdf

C3_Witness ==
    /\ FinConCruda
    /\ MismaEntradaAceptable
    /\ CacheAceptable
    /\ LenStr(labInicio.text) < LenStr(transcripcion_cruda)
    /\ pdf.exists

\* the labeled file this run found is blank or fails the acceptance check
CacheStale ==
    /\ labInicio.exists
    /\ EsVacia(labInicio.text) \/ ~Aceptable(labInicio.text)

\* C4: a run that finds a labeled file that is blank or fails the acceptance
\* check calls diarizar_transcripcion, under either fallback setting; it
\* neither reuses the file nor fails without having tried.
C4_StaleRegenerated ==
    (FinConCruda /\ CacheStale) => intentos >= 1

\* C5: when diarizar_transcripcion fails on a backend error and the fallback
\* flag is set, the run ends well with the raw transcript as the labeled text,
\* unchecked, and generar_pdf is called with it.
C5_FallbackActivation ==
    (paso = "fin" /\ error \in {"backend", "incompleta"} /\ permitir_fallback_crudo)
        => /\ resultado = "ok"
           /\ usoFallback
           /\ transcripcion_diarizada = transcripcion_cruda
           /\ pdf = Archivo(transcripcion_cruda)

C5_Witness ==
    /\ paso = "fin"
    /\ error = "backend"
    /\ permitir_fallback_crudo
    /\ Len(llamadas) = 2
    /\ ~ContieneEtiquetas(transcripcion_cruda)
    /\ pdf = Archivo(transcripcion_cruda)

\* C6: when diarizar_transcripcion fails and the fallback flag is not set, the
\* run ends with the fatal error of the failed diarization and generar_pdf is
\* not called in that run.
C6_FallbackSuppression ==
    (paso = "fin" /\ error # "ninguno" /\ ~permitir_fallback_crudo)
        => /\ resultado = "fatal_diarizacion"
           /\ pdf = SinArchivo
           /\ ~usoFallback

C6_Witness ==
    /\ paso = "fin"
    /\ error = "backend"
    /\ ~permitir_fallback_crudo
    /\ Len(llamadas) = 2
    /\ resultado = "fatal_diarizacion"

\* C7: a labeled text whose ratio is below the minimum, read from the labeled
\* file or produced by the backend, is never the text handed to generar_pdf,
\* under either fallback setting.
C7_RatioGate ==
    (paso = "fin" /\ pdf.exists /\ ~usoFallback)
        => RatioSuficiente(pdf.text, transcripcion_cruda, ratio_minimo_diarizacion)

\* C8: every text a run writes to the labeled file passes the acceptance
\* check (speaker label and ratio); a run that ends in a fatal error leaves
\* no text it produced in the file.
C8_OnlyValidatedPersisted ==
    escritura.exists =>
        /\ Aceptable(escritura.text)
        /\ paso = "fin" => resultado \notin Fatales

\* C9: with the fallback flag not set, generar_pdf is called only with a text
\* that holds a speaker label and has a sufficient ratio, whichever way the
\* text was reached; otherwise the run ends with a fatal error and no call.
C9_FinalGate ==
    (FinConCruda /\ ~permitir_fallback_crudo) =>
        IF error = "ninguno" /\ Aceptable(transcripcion_diarizada)
        THEN resultado = "ok" /\ pdf = Archivo(transcripcion_diarizada)
        ELSE resultado \in Fatales /\ pdf = SinArchivo

C9_Witness ==
    /\ FinConCruda
    /\ ~permitir_fallback_crudo
    /\ intentos = 0
    /\ ContieneEtiquetas(transcripcion_diarizada)
    /\ resultado = "fatal_ratio"
    /\ pdf = SinArchivo

\* C10: a run whose raw transcript is blank ends with a fatal error under
\* either fallback setting, calls the backend zero times and does not call
\* generar_pdf.
C10_BlankRawFatal ==
    (FinConCruda /\ EsVacia(transcripcion_cruda))
        => /\ resultado \in Fatales
           /\ llamadas = <<>>
           /\ pdf = SinArchivo

\* diarizar_transcripcion got an answer that passed its check for every bloque
TodosLosBloques == bloques # <<>> /\ Len(partes_diarizadas) = Len(bloques)

\* the answer of call i was returned (not raised) and is empty once stripped
RespuestaVacia(i) == ~llamadas[i].resp.raise /\ Strip(llamadas[i].resp.text) = <<>>

\* the answer of call i was returned and is not empty once stripped
RespuestaValida(i) == ~llamadas[i].resp.raise /\ Strip(llamadas[i].resp.text) # <<>>

\* C11: after every bloque has succeeded, diarizar_transcripcion raises exactly
\* when len(joined labeled text) / len(raw text) is below the configured
\* minimum ratio, and returns normally only when it is not below it.
C11_GlobalValidation ==
    (paso = "fin" /\ TodosLosBloques) =>
        (error = "incompleta"
            <=> 100 * LenStr(Reensamblar(partes_diarizadas))
                    < ratio_minimo_diarizacion * LenStr(transcripcion_cruda))

\* C12: a minimum ratio outside (0, 1] is refused at startup: main goes no
\* further than its start and touches neither file, extractor nor backend.
C12_ConfigValidation ==
    ratio_minimo_diarizacion \notin 1..100 =>
        /\ paso \in {"inicio", "fin"}
        /\ resultado \in {"ninguno", "fatal_config"}
        /\ ~extrajo
        /\ llamadas = <<>>

\* C13: when the answer for bloque k is empty once stripped, the call for k is
\* the last call of the attempt, diarizar_transcripcion raises, the parts
\* joined so far are not returned and the labeled file is not written.
C13_HardStop ==
    \A k \in 1..Len(llamadas) :
        RespuestaVacia(k) =>
            /\ k = Len(llamadas)
            /\ paso = "fin"
            /\ error = "backend"
            /\ escritura = SinArchivo
            /\ labFile = labInicio
            /\ transcripcion_diarizada =
                 (IF permitir_fallback_crudo THEN transcripcion_cruda ELSE labInicio.text)

C13_Witness ==
    /\ Len(llamadas) = 2
    /\ RespuestaVacia(2)
    /\ llamadas[2].resp.text # <<>>
    /\ Len(partes_diarizadas) = 1
    /\ labInicio.exists

\* C14: a run calls diarizar_transcripcion at most once, and in that attempt
\* the backend at most once per bloque index: the calls of a run are never
\* more than the bloques.
C14_OneAttempt ==
    /\ intentos <= 1
    /\ Len(llamadas) <= Len(bloques)
    /\ \A i, j \in 1..Len(llamadas) : llamadas[i].indice = llamadas[j].indice => i = j
    /\ intentos = 0 => llamadas = <<>>

C14_Witness ==
    /\ paso = "fin"
    /\ intentos = 1
    /\ Len(llamadas) = 2
    /\ error = "backend"
    /\ labInicio.exists

\* C15 as stated: once the raw file exists, no step changes it and no run
\* calls extraer_transcripcion.
C15_RawImmutable ==
    [][rawFile.exists => (rawFile' = rawFile /\ (extrajo' => extrajo))]_vars

\* C15 amended: once the raw file exists and is not blank, no step changes it
\* and no run calls extraer_transcripcion.
C15_RawImmutableNonBlank ==
    [][(rawFile.exists /\ ~EsVacia(rawFile.text))
          => (rawFile' = rawFile /\ (extrajo' => extrajo))]_vars

C15_Witness ==
    /\ corridas = 2
    /\ previa.extrajo
    /\ paso = "fin"
    /\ ~extrajo
    /\ rawFile = Archivo(transcripcion_cruda)
    /\ ~EsVacia(transcripcion_cruda)

\* the four ways a run of main that has a raw transcript ends
FinAceptado ==
    /\ resultado = "ok"
    /\ ~usoFallback
    /\ error = "ninguno"
    /\ pdf = Archivo(transcripcion_diarizada)
    /\ permitir_fallback_crudo \/ Aceptable(transcripcion_diarizada)

FinDegradado ==
    /\ resultado = "ok"
    /\ usoFallback
    /\ permitir_fallback_crudo
    /\ error # "ninguno"
    /\ pdf = Archivo(transcripcion_cruda)

FinFalloBackend ==
    /\ resultado = "fatal_diarizacion"
    /\ ~usoFallback
    /\ error # "ninguno"
    /\ pdf = SinArchivo

FinRechazado ==
    /\ resultado \in {"fatal_etiquetas", "fatal_ratio"}
    /\ ~permitir_fallback_crudo
    /\ error = "ninguno"
    /\ ~Aceptable(transcripcion_diarizada)
    /\ pdf = SinArchivo

\* C16: a run of main that has a raw transcript ends in exactly one of:
\* labeled text accepted, raw text accepted as fallback (with its warning),
\* fatal failure of the diarization, fatal rejection by the final check; a
\* failed run is not reported as done and generar_pdf is not called in it.
C16_Classification ==
    FinConCruda =>
        /\ FinAceptado \/ FinDegradado \/ FinFalloBackend \/ FinRechazado
        /\ ~(FinAceptado /\ FinDegradado)
        /\ ~(FinFalloBackend /\ FinRechazado)
        /\ resultado # "ok" => pdf = SinArchivo

C16_Witness ==
    /\ FinConCruda
    /\ FinRechazado
    /\ Len(llamadas) = 2
    /\ escritura.exists

\* C17: the calls of an attempt carry (indice, total) = (k, M) for k = 1, 2, ...
\* in this order, each with bloque k; the call for k comes only after the
\* answer for k-1 was returned and was not empty once stripped.
C17_SequentialOrder ==
    /\ \A k \in 1..Len(llamadas) :
         /\ llamadas[k].indice = k
         /\ llamadas[k].total = Len(bloques)
         /\ llamadas[k].bloque = bloques[k]
    /\ \A k \in 1..(Len(llamadas) - 1) :
         /\ RespuestaValida(k)
         /\ partes_diarizadas[k] = Strip(llamadas[k].resp.text)
    /\ paso = "bucle" => Len(partes_diarizadas) = Len(llamadas)

C17_Witness ==
    /\ Len(llamadas) = 2
    /\ Len(bloques) = 2
    /\ llamadas[1].resp.text # llamadas[2].resp.text
    /\ RespuestaValida(2)

\* the stripped answers of calls i..n joined by two newlines
RECURSIVE RespuestasUnidas(_, _)
RespuestasUnidas(i, n) ==
    IF i > n THEN <<>>
    ELSE IF i = n THEN Strip(llamadas[i].resp.text)
    ELSE Strip(llamadas[i].resp.text) \o <<Rep("\n", 2)>> \o RespuestasUnidas(i + 1, n)

\* C18: when all M calls succeed, the labeled text diarizar_transcripcion
\* produces is the stripped answers for bloques 1..M, in this order, with two
\* newlines between consecutive answers.
C18_Reassembly ==
    escritura.exists =>
        /\ Len(llamadas) = Len(bloques)
        /\ escritura.text = RespuestasUnidas(1, Len(llamadas))
        /\ labFile = escritura
        /\ transcripcion_diarizada = escritura.text

C18_Witness ==
    /\ escritura.exists
    /\ Len(llamadas) = 2
    /\ Strip(llamadas[1].resp.text) # Strip(llamadas[2].resp.text)
    /\ llamadas[1].resp.text # Strip(llamadas[1].resp.text)

\* C19: for consecutive bloques c, d returned by _dividir_en_bloques the first
\* word w of d did not fit in c: len(c) + 1 + len(w) > max_chars; and every
\* bloque holds at least one word.
C19_GreedyMaximal ==
    segPc = "returned" =>
        /\ \A i \in 1..Len(segBloques) : Split(segBloques[i]) # <<>>
        /\ \A i \in 1..(Len(segBloques) - 1) :
             LenStr(segBloques[i]) + 1 + LenStr(Split(segBloques[i + 1])[1]) > segMax

C19_Witness ==
    /\ segPc = "returned"
    /\ Len(segBloques) >= 2
    /\ Len(Split(segBloques[1])) >= 2
    /\ LenStr(segBloques[1]) = segMax

\* C20: _dividir_en_bloques returns no bloque exactly when texto is empty or
\* all whitespace; otherwise it returns at least one bloque and every bloque
\* holds at least one word.
C20_EmptyIffBlank ==
    segPc = "returned" =>
        /\ segBloques = <<>> <=> EsVacia(segTexto)
        /\ \A i \in 1..Len(segBloques) : Split(segBloques[i]) # <<>>

C20_Witness ==
    /\ segPc = "returned"
    /\ segBloques = <<>>
    /\ Len(segTexto) >= 2

\* C20, in main: diarizar_transcripcion never raises for want of bloques
ChunkingErrorUnreachable == error # "bloques"

\* C21: when the attempt of diarizar_transcripcion of a run fails (empty answer,
\* exception of the backend, or its own size check), the labeled file after
\* the run is what it was when the run started, absent or with the same text,
\* whatever the fallback flag; the raw text main falls back to is not saved.
C21_FailedAttemptKeepsCache ==
    error # "ninguno" =>
        /\ paso = "fin"
        /\ escritura = SinArchivo
        /\ labFile = labInicio

C21_Witness ==
    /\ error = "incompleta"
    /\ usoFallback
    /\ pdf = Archivo(transcripcion_cruda)
    /\ labInicio.exists
    /\ ~EsVacia(labInicio.text)
    /\ labFile = labInicio

\* C22: with the fallback flag set, every run of main that has its raw
\* transcript goes on to call generar_pdf, whatever the labeled file holds and
\* whatever generate_content returns or raises, and no run with the flag set
\* and a raw transcript ends with a fatal error.
C22_FallbackAlwaysRenders ==
    /\ (paso = "paso2" /\ permitir_fallback_crudo)
          ~> (paso = "fin" /\ permitir_fallback_crudo /\ resultado = "ok" /\ pdf.exists)
    /\ []((permitir_fallback_crudo /\ paso = "fin" /\ resultado # "fatal_extraccion")
            => (resultado = "ok" /\ pdf.exists))

C22_Witness ==
    /\ permitir_fallback_crudo
    /\ paso = "fin"
    /\ resultado = "ok"
    /\ pdf.exists
    /\ Len(llamadas) = 2
    /\ llamadas[2].resp.raise
    /\ error = "backend"

====
